---- MODULE Spec2Model ----
(***************************************************************************)
(* The price pipeline of 01_materials/labs/02_data_engineering.ipynb:      *)
(* download prices (yfinance), normalise them to one row per ticker and    *)
(* day, store them as parquet partitions <PRICE_DATA>/<ticker>/<ticker>_   *)
(* <year> (bronze), read them back, derive Close_lag_1 and Returns and     *)
(* store the result under FEATURES_DATA (silver).                          *)
(*                                                                         *)
(* The file system is a function from file paths (sequences of path        *)
(* components) to file contents (sequences of rows).  A trading day is a   *)
(* number 1..NumDates; floats are records (see Num, NaN, PosInf).          *)
(***************************************************************************)
EXTENDS Integers, Sequences, FiniteSets, TLC

VARIABLES
    pc,           \* the cell of the notebook that runs next
    market,       \* what the provider holds for each ticker (never changes)
    request,      \* the arguments of the yf.download calls of this run
    tech_raw_dt,  \* the wide frame yf.download returned: ticker -> day -> Close
    tech_dt,      \* the long frame: rows sorted by (Ticker, Date)
    fs,           \* the file system: path -> rows
    wi,           \* bronze write loop: index of the partition being written
    wparts,       \* bronze write loop: part files of that partition already written
    dd_px,        \* the frame read back from the bronze partitions
    sparts,       \* silver write: part files already written
    failures,     \* the symbols this run has recorded as failed
    prev          \* <<bronze files at the end of the last finished write loop>>, or <<>>

vars == <<pc, market, request, tech_raw_dt, tech_dt, fs, wi, wparts, dd_px, sparts, failures, prev>>

----------------------------------------------------------------------------
(* Bounds of the model *)

\* calendar years covered by the requested range (2000..2025 in the notebook)
NumYears == 2
\* trading days per calendar year
DaysPerYear == 2

----------------------------------------------------------------------------
(* Configuration and inputs *)

\* start = "2000-01-01"
FirstYear == 2000
LastYear == FirstYear + NumYears - 1
Years == FirstYear..LastYear
NumDates == NumYears * DaysPerYear
Dates == 1..NumDates

\* tech_sector['ticker'].to_list(), in ascending order
tech_tickers == <<"A", "B">>
Tickers == {tech_tickers[i] : i \in 1..Len(tech_tickers)}

\* os.getenv("PRICE_DATA"), os.getenv("FEATURES_DATA")
PRICE_DATA == "price_data"
FEATURES_DATA == "features_data"

\* dd.from_pandas(..., 2)
NPartitions == 2

----------------------------------------------------------------------------
(* Floats: a finite rational num/den (den > 0, reduced), NaN, +inf or -inf *)

Num(n) == [kind |-> "num", num |-> n, den |-> 1]
NaN == [kind |-> "nan", num |-> 0, den |-> 1]
PosInf == [kind |-> "inf", num |-> 0, den |-> 1]
NegInf == [kind |-> "ninf", num |-> 0, den |-> 1]

Abs(n) == IF n < 0 THEN -n ELSE n

RECURSIVE GCD(_, _)
GCD(a, b) == IF b = 0 THEN a ELSE GCD(b, a % b)

Frac(n, d) ==
    LET g == GCD(Abs(n), Abs(d))
        s == IF d < 0 THEN -1 ELSE 1
    IN [kind |-> "num", num |-> s * (n \div g), den |-> s * (d \div g)]

\* x / y on float64 columns: NaN propagates, x/0 is +-inf, 0/0 is NaN
FloatDiv(x, y) ==
    IF x.kind = "nan" \/ y.kind = "nan" THEN NaN
    ELSE IF x.kind # "num" /\ y.kind # "num" THEN NaN
    ELSE IF x.kind # "num"
        THEN (IF (x.kind = "inf") = (y.num >= 0) THEN PosInf ELSE NegInf)
    ELSE IF y.kind # "num" THEN Num(0)
    ELSE IF y.num = 0
        THEN (IF x.num = 0 THEN NaN ELSE IF x.num > 0 THEN PosInf ELSE NegInf)
    ELSE Frac(x.num * y.den, x.den * y.num)

\* x - 1
MinusOne(x) ==
    IF x.kind # "num" THEN x ELSE Frac(x.num - x.den, x.den)

----------------------------------------------------------------------------
(* The provider *)

\* What the provider holds for a ticker: a price series, a ticker it does not
\* recognise (yfinance reports the failure itself and leaves the ticker's
\* columns all-NaN), or a ticker it leaves out of the answer.
Shapes == {"up", "zero", "unknown", "omitted"}

Price(shape, d) ==
    CASE shape = "up" -> Num(10 * d)
      [] shape = "zero" -> Num(10 * (d - 1))
      [] OTHER -> NaN

----------------------------------------------------------------------------
(* Sequences *)

RECURSIVE SeqConcat(_)
\* the concatenation of a sequence of sequences
SeqConcat(ss) == IF ss = <<>> THEN <<>> ELSE Head(ss) \o SeqConcat(Tail(ss))

RECURSIVE Perms(_)
\* every ordering of a finite set
Perms(S) ==
    IF S = {} THEN {<<>>}
    ELSE UNION {{<<x>> \o p : p \in Perms(S \ {x})} : x \in S}

RECURSIVE Unique(_)
\* Series.unique(): the distinct values in order of first appearance
Unique(s) ==
    IF s = <<>> THEN <<>>
    ELSE LET u == Unique(SubSeq(s, 1, Len(s) - 1))
             x == s[Len(s)]
         IN IF \E i \in 1..Len(u) : u[i] = x THEN u ELSE Append(u, x)

RECURSIVE Ascending(_, _)
\* the elements of a finite set in ascending order of their (distinct) keys
Ascending(S, key) ==
    IF S = {} THEN <<>>
    ELSE LET m == CHOOSE x \in S : \A y \in S : key[x] <= key[y]
         IN <<m>> \o Ascending(S \ {m}, key)

IsPrefix(p, q) == Len(p) <= Len(q) /\ SubSeq(q, 1, Len(p)) = p

----------------------------------------------------------------------------
(* Download and normalise *)

\* the position of a ticker in ascending ticker order
Rank(t) == CHOOSE i \in 1..Len(tech_tickers) : tech_tickers[i] = t

\* Date.dt.year
YearOf(d) == FirstYear + (d - 1) \div DaysPerYear

\* yf.download(tickers, start, end): one column per ticker the provider answers
\* for, one line per trading day on which some ticker has a price
Provider(m, tickers) ==
    LET cols == {t \in tickers : m[t] # "omitted"}
        days == {d \in Dates : \E t \in cols : Price(m[t], d).kind = "num"}
    IN [index |-> days,
        cols |-> [t \in cols |-> [d \in days |-> Price(m[t], d)]]]

\* the periods a request covers
FetchedPeriods(req) == UNION {r.tickers \X (r.start..r.end) : r \in req}

\* .stack(future_stack=True).reset_index(): one row per (Date, Ticker), day by
\* day; rows whose values are all NaN are kept
Stack(raw) ==
    LET days == Ascending(raw.index, [d \in raw.index |-> d])
        cols == Ascending(DOMAIN raw.cols, [t \in DOMAIN raw.cols |-> Rank(t)])
    IN SeqConcat([i \in 1..Len(days) |->
           [j \in 1..Len(cols) |->
               [Date |-> days[i], Ticker |-> cols[j], Close |-> raw.cols[cols[j]][days[i]]]]])

\* .sort_values(['Ticker', 'Date'])
SortValues(frame) ==
    SortSeq(frame, LAMBDA a, b : \/ Rank(a.Ticker) < Rank(b.Ticker)
                                 \/ a.Ticker = b.Ticker /\ a.Date < b.Date)

----------------------------------------------------------------------------
(* The bronze store *)

\* the partition directory named after the ticker alone, without the year
yr_path_without_year(ticker, yr) == <<PRICE_DATA, ticker, ticker>>

\* os.path.join(PRICE_DATA, ticker, f"{ticker}_{yr}")
yr_path(ticker, yr) == <<PRICE_DATA, ticker, ticker \o "_" \o ToString(yr)>>

\* the part files to_parquet writes into a directory
PartFile(dir, k) == dir \o <<"part." \o ToString(k) \o ".parquet">>

\* ticker_dt.assign(Year = ticker_dt.Date.dt.year) of tech_dt[tech_dt['Ticker'] == ticker]
TickerFrame(frame, ticker) ==
    LET sel == SelectSeq(frame, LAMBDA r : r.Ticker = ticker)
    IN [i \in 1..Len(sel) |->
           [Date |-> sel[i].Date, Ticker |-> sel[i].Ticker, Close |-> sel[i].Close,
            Year |-> YearOf(sel[i].Date)]]

\* the rows of the ticker for every year, without the selection by year
YearFrame_all_years(frame, ticker, yr) == TickerFrame(frame, ticker)

\* ticker_dt[ticker_dt['Year'] == yr]
YearFrame(frame, ticker, yr) ==
    SelectSeq(TickerFrame(frame, ticker), LAMBDA r : r.Year = yr)

\* dd.from_pandas(df, n): the rows in chunks of ceil(len/n), at most n of them
FromPandas(rows, n) ==
    LET chunk == (Len(rows) + n - 1) \div n
        count == IF chunk = 0 THEN 0 ELSE (Len(rows) + chunk - 1) \div chunk
    IN [k \in 0..(count - 1) |->
           SubSeq(rows, k * chunk + 1,
                  IF (k + 1) * chunk < Len(rows) THEN (k + 1) * chunk ELSE Len(rows))]

\* the (ticker, yr) pairs of the two nested loops, in loop order
LoopKeys(frame) ==
    LET ts == Unique([i \in 1..Len(frame) |-> frame[i].Ticker])
    IN SeqConcat([i \in 1..Len(ts) |->
           LET tf == TickerFrame(frame, ts[i])
               ys == Unique([j \in 1..Len(tf) |-> tf[j].Year])
           IN [j \in 1..Len(ys) |-> <<ts[i], ys[j]>>]])

\* shutil.rmtree(root): every file under root is gone
RmTree(files, root) ==
    [p \in {q \in DOMAIN files : ~IsPrefix(<<root>>, q)} |-> files[p]]

\* the files under a directory
Under(files, dir) == {p \in DOMAIN files : IsPrefix(dir, p)}

BronzeOf(files) == [p \in Under(files, <<PRICE_DATA>>) |-> files[p]]

\* to_parquet writes one part file: the file holds exactly these rows afterwards
WriteFile(files, path, rows) ==
    [p \in DOMAIN files \cup {path} |-> IF p = path THEN rows ELSE files[p]]

----------------------------------------------------------------------------
(* Reading the bronze store back, and the features *)

RECURSIVE ConcatChoices(_)
\* every concatenation that takes one sequence from each set, in order
ConcatChoices(sets) ==
    IF sets = <<>> THEN {<<>>}
    ELSE {h \o t : h \in Head(sets), t \in ConcatChoices(Tail(sets))}

RECURSIVE GlobOrders(_, _)
\* glob(os.path.join(root, "**/*.parquet"), recursive = True): the files under
\* dir, directory by directory; the entries of a directory come in any order
GlobOrders(files, dir) ==
    IF dir \in files THEN {<<dir>>}
    ELSE LET kids == {SubSeq(p, 1, Len(dir) + 1) : p \in {q \in files : IsPrefix(dir, q)}}
         IN UNION {ConcatChoices([i \in 1..Len(perm) |-> GlobOrders(files, perm[i])]) :
                       perm \in Perms(kids)}

\* dd.read_parquet(paths): the rows of the files, file after file
ReadParquet(files, paths) == SeqConcat([i \in 1..Len(paths) |-> files[paths[i]]])

\* the rows of each ticker, tickers in ascending order, each ticker's rows in
\* the order the frame has them
ByTicker(frame) ==
    LET ts == SortSeq(Unique([i \in 1..Len(frame) |-> frame[i].Ticker]),
                      LAMBDA a, b : Rank(a) < Rank(b))
    IN [i \in 1..Len(ts) |-> SelectSeq(frame, LAMBDA r : r.Ticker = ts[i])]

\* .set_index("Ticker"): the frame sorted by ticker
SetIndex(frame) == SeqConcat(ByTicker(frame))

\* x.assign(Close_lag_1 = x['Close'].shift(1)) on one group
ShiftGroup(x) ==
    [i \in 1..Len(x) |->
        [Date |-> x[i].Date, Ticker |-> x[i].Ticker, Close |-> x[i].Close, Year |-> x[i].Year,
         Close_lag_1 |-> IF i = 1 THEN NaN ELSE x[i - 1].Close]]

\* dd_px.groupby('Ticker', group_keys=False).apply(...)
Shift(frame) ==
    LET groups == ByTicker(frame)
    IN SeqConcat([i \in 1..Len(groups) |-> ShiftGroup(groups[i])])

\* dd_shift.assign(Returns = lambda x: x['Close']/x['Close_lag_1'] - 1)
Returns(frame) ==
    [i \in 1..Len(frame) |->
        [Date |-> frame[i].Date, Ticker |-> frame[i].Ticker, Close |-> frame[i].Close,
         Year |-> frame[i].Year, Close_lag_1 |-> frame[i].Close_lag_1,
         Returns |-> MinusOne(FloatDiv(frame[i].Close, frame[i].Close_lag_1))]]

\* the lazy frames of the transform cells
dd_shift == Shift(dd_px)
dd_rets == Returns(dd_shift)

\* the partitions of a frame indexed by ticker: one per ticker
FrameParts(frame) ==
    LET groups == ByTicker(frame)
    IN [k \in 0..(Len(groups) - 1) |-> groups[k + 1]]

----------------------------------------------------------------------------
(* The notebook, cell by cell *)

NoFrame == [index |-> {}, cols |-> <<>>]

Init ==
    /\ pc = "download"
    /\ market \in [Tickers -> Shapes]
    /\ request = {}
    /\ tech_raw_dt = NoFrame
    /\ tech_dt = <<>>
    /\ fs = <<>>
    /\ wi = 1
    /\ wparts = {}
    /\ dd_px = <<>>
    /\ sparts = {}
    /\ failures = {}
    /\ prev = <<>>

\* tech_raw_dt = yf.download(tech_tickers, start = "2000-01-01", end = "2025-01-26")
Download ==
    /\ pc = "download"
    /\ request' = request \cup {[tickers |-> Tickers, start |-> FirstYear, end |-> LastYear]}
    /\ tech_raw_dt' = Provider(market, Tickers)
    /\ pc' = "normalize"
    /\ UNCHANGED <<market, tech_dt, fs, wi, wparts, dd_px, sparts, failures, prev>>

\* tech_dt = tech_raw_dt.stack(future_stack=True).reset_index().sort_values([...])
Normalize ==
    /\ pc = "normalize"
    /\ tech_dt' = SortValues(Stack(tech_raw_dt))
    /\ pc' = "cleanup"
    /\ UNCHANGED <<market, request, tech_raw_dt, fs, wi, wparts, dd_px, sparts, failures, prev>>

\* if os.path.exists(PRICE_DATA): shutil.rmtree(PRICE_DATA)
Cleanup ==
    /\ pc = "cleanup"
    /\ fs' = RmTree(fs, PRICE_DATA)
    /\ wi' = 1
    /\ wparts' = {}
    /\ pc' = "write"
    /\ UNCHANGED <<market, request, tech_raw_dt, tech_dt, dd_px, sparts, failures, prev>>

\* yr_dd.to_parquet(yr_path, engine = "pyarrow") writes the part files of the
\* partition one by one, in any order
WritePart ==
    /\ pc = "write"
    /\ wi <= Len(LoopKeys(tech_dt))
    /\ LET key == LoopKeys(tech_dt)[wi]
           yr_dd == FromPandas(YearFrame(tech_dt, key[1], key[2]), NPartitions)
       IN \E k \in DOMAIN yr_dd \ wparts :
            /\ fs' = WriteFile(fs, PartFile(yr_path(key[1], key[2]), k), yr_dd[k])
            /\ IF wparts \cup {k} = DOMAIN yr_dd
                 THEN wi' = wi + 1 /\ wparts' = {}
                 ELSE wi' = wi /\ wparts' = wparts \cup {k}
    /\ UNCHANGED <<pc, market, request, tech_raw_dt, tech_dt, dd_px, sparts, failures, prev>>

\* the two loops are through
FinishWrite ==
    /\ pc = "write"
    /\ wi > Len(LoopKeys(tech_dt))
    /\ prev' = <<BronzeOf(fs)>>
    /\ pc' = "load"
    /\ UNCHANGED <<market, request, tech_raw_dt, tech_dt, fs, wi, wparts, dd_px, sparts, failures>>

\* parquet_files = glob(...); dd_px = dd.read_parquet(parquet_files).set_index("Ticker")
Load ==
    /\ pc = "load"
    /\ Under(fs, <<PRICE_DATA>>) # {}
    /\ \E parquet_files \in GlobOrders(DOMAIN fs, <<PRICE_DATA>>) :
            dd_px' = SetIndex(ReadParquet(fs, parquet_files))
    /\ pc' = "clean"
    /\ UNCHANGED <<market, request, tech_raw_dt, tech_dt, fs, wi, wparts, sparts, failures, prev>>

\* dd.read_parquet of an empty list of files raises
LoadFails ==
    /\ pc = "load"
    /\ Under(fs, <<PRICE_DATA>>) = {}
    /\ pc' = "failed"
    /\ UNCHANGED <<market, request, tech_raw_dt, tech_dt, fs, wi, wparts, dd_px, sparts, failures, prev>>

\* if os.path.exists(FEATURES_DATA): shutil.rmtree(FEATURES_DATA)
CleanFeatures ==
    /\ pc = "clean"
    /\ fs' = RmTree(fs, FEATURES_DATA)
    /\ sparts' = {}
    /\ pc' = "save"
    /\ UNCHANGED <<market, request, tech_raw_dt, tech_dt, wi, wparts, dd_px, failures, prev>>

\* dd_rets.to_parquet(FEATURES_DATA, overwrite = True) writes the part files
\* one by one, in any order
SavePart ==
    /\ pc = "save"
    /\ LET parts == FrameParts(dd_rets)
       IN \E k \in DOMAIN parts \ sparts :
            /\ fs' = WriteFile(fs, PartFile(<<FEATURES_DATA>>, k), parts[k])
            /\ sparts' = sparts \cup {k}
            /\ pc' = IF sparts' = DOMAIN parts THEN "done" ELSE "save"
    /\ UNCHANGED <<market, request, tech_raw_dt, tech_dt, wi, wparts, dd_px, failures, prev>>

\* the run ends here (it finished, failed or was interrupted) and the notebook
\* is run again from the top: the kernel's variables are gone, the files stay
Rerun ==
    /\ pc # "download"
    /\ pc' = "download"
    /\ request' = {}
    /\ tech_raw_dt' = NoFrame
    /\ tech_dt' = <<>>
    /\ wi' = 1
    /\ wparts' = {}
    /\ dd_px' = <<>>
    /\ sparts' = {}
    /\ failures' = {}
    /\ UNCHANGED <<market, fs, prev>>

\* download_all: the cells up to the bronze write loop
NextDownload == Download \/ Normalize \/ Cleanup \/ WritePart \/ FinishWrite \/ Rerun

\* featurize: the cells from the load to the save
NextFeaturize == Load \/ LoadFails \/ CleanFeatures \/ SavePart

Next == NextDownload \/ NextFeaturize

Spec == Init /\ [][Next]_vars

SpecDownload == Init /\ [][NextDownload]_vars

----------------------------------------------------------------------------
(* What a reader of the stores sees *)

Keys == Tickers \X Years

Range(f) == {f[x] : x \in DOMAIN f}

\* list_partitions: the keys whose partition directory holds a file
ListPartitions(files) == {k \in Keys : Under(files, yr_path(k[1], k[2])) # {}}

\* the files of the partition of a key
PartitionOf(files, k) == [p \in Under(files, yr_path(k[1], k[2])) |-> files[p]]

\* the rows a reader finds in the partition of a key
RowsOf(files, k) == UNION {Range(files[p]) : p \in Under(files, yr_path(k[1], k[2]))}

\* the long frame every run gets from the provider
ExpectedFrame == SortValues(Stack(Provider(market, Tickers)))

\* the listed partitions that hold all the rows of their key
Committed(files) ==
    {k \in ListPartitions(files) :
        RowsOf(files, k) = Range(YearFrame(ExpectedFrame, k[1], k[2]))}

\* the period that contains the end of the requested range
CurrentPeriod == LastYear

\* the files of the periods before the current one
Historical(files) ==
    [p \in UNION {Under(files, yr_path(k[1], k[2])) : k \in {h \in Keys : h[2] < CurrentPeriod}}
        |-> files[p]]

SilverOf(files) == [p \in Under(files, <<FEATURES_DATA>>) |-> files[p]]

----------------------------------------------------------------------------
(* Claims *)

\* C1: skip-stale-only policy of download_all: a run fetches only the current
\* period and the periods the store does not hold, and no step touches a
\* materialized partition of an earlier period.
C1_SkipStaleOnly ==
    [][/\ (pc = "download" /\ pc' = "normalize") =>
            FetchedPeriods(request') \subseteq
                {k \in Keys : k[2] = CurrentPeriod \/ k \notin Committed(fs)}
       /\ \A k \in Committed(fs) :
            k[2] < CurrentPeriod => PartitionOf(fs', k) = PartitionOf(fs, k)]_vars

\* C2: idempotence of download_all: a run that follows a finished run fetches,
\* for a symbol whose earlier periods are all materialized, nothing but the
\* current period, and when it finishes the historical partitions are the
\* same files with the same rows as after the earlier run.
C2_Idempotent ==
    [][/\ (pc = "download" /\ pc' = "normalize" /\ prev # <<>>) =>
            \A t \in Tickers :
                ({t} \X (FirstYear..(CurrentPeriod - 1)) \subseteq Committed(fs)) =>
                    \A k \in FetchedPeriods(request') : k[1] = t => k[2] = CurrentPeriod
       /\ (pc = "write" /\ pc' = "load" /\ prev # <<>>) =>
            Historical(fs') = Historical(prev[1])]_vars

\* C3: partition atomicity: whenever a reader lists a partition, it holds all
\* the rows of a finished write of that key, never a part of them.
C3_PartitionAtomic ==
    \A k \in ListPartitions(fs) :
        RowsOf(fs, k) = Range(YearFrame(ExpectedFrame, k[1], k[2]))

\* the frame read back from the store is in memory
Loaded == pc \in {"clean", "save", "done"}

\* the row of the same ticker with the latest earlier date, if there is one
Preceding(frame, r) ==
    LET earlier == {j \in 1..Len(frame) :
                        frame[j].Ticker = r.Ticker /\ frame[j].Date < r.Date}
    IN {frame[j] : j \in {i \in earlier : \A e \in earlier : frame[e].Date <= frame[i].Date}}

\* C4: lag correctness of featurize: the row of a ticker's earliest date has no
\* lag and no return, every other row has the close of the ticker's preceding
\* date as its lag (across partitions too) and close/lag - 1 as its return;
\* closes 10, 20, 30 give lags null, 10, 20 and returns null, 1, 1/2.
C4_LagCorrect ==
    Loaded =>
        \A i \in 1..Len(dd_rets) :
            LET r == dd_rets[i]
                before == Preceding(dd_rets, r)
            IN /\ before = {} => r.Close_lag_1 = NaN /\ r.Returns = NaN
               /\ \A q \in before :
                    /\ r.Close_lag_1 = q.Close
                    /\ r.Returns = MinusOne(FloatDiv(r.Close, q.Close))
               /\ (market[r.Ticker] = "up" /\ r.Date = 2) =>
                    r.Close_lag_1 = Num(10) /\ r.Returns = Num(1)
               /\ (market[r.Ticker] = "up" /\ r.Date = 3) =>
                    r.Close_lag_1 = Num(20) /\ r.Returns = Frac(1, 2)

\* a frame in ascending (Ticker, Date) order
IsSorted(frame) ==
    \A i \in 1..(Len(frame) - 1) :
        \/ Rank(frame[i].Ticker) < Rank(frame[i + 1].Ticker)
        \/ frame[i].Ticker = frame[i + 1].Ticker /\ frame[i].Date < frame[i + 1].Date

\* a stored row without the Year column the write loop added
PriceRow(r) == [Date |-> r.Date, Ticker |-> r.Ticker, Close |-> r.Close]

\* C5: round trip of the store: reading all partitions back gives exactly the
\* rows that were written, none lost, duplicated or changed, in ascending
\* (symbol, date) order.
C5_RoundTrip ==
    Loaded =>
        /\ Len(dd_px) = Len(tech_dt)
        /\ {PriceRow(dd_px[i]) : i \in 1..Len(dd_px)} = Range(tech_dt)
        /\ IsSorted(dd_px)

\* the symbols the provider has no prices for
BadSymbols == {t \in Tickers : market[t] \in {"unknown", "omitted"}}

\* C6: missing-data resilience: with a bad symbol in the batch the rows and the
\* partitions of every other symbol are those of a batch without it, and the run
\* has recorded exactly one failure for each bad symbol.
C6_MissingDataResilience ==
    /\ pc \notin {"download", "normalize"} =>
            \A t \in Tickers \ BadSymbols :
                SelectSeq(tech_dt, LAMBDA r : r.Ticker = t)
                    = SelectSeq(SortValues(Stack(Provider(market, Tickers \ BadSymbols))),
                                LAMBDA r : r.Ticker = t)
    /\ pc = "load" =>
            \A k \in Keys : k[1] \notin BadSymbols => k \in Committed(fs)
    /\ pc # "download" => failures = BadSymbols

\* the silver dataset of a frame: every part file of it
SilverDataset(frame) ==
    LET parts == FrameParts(frame)
    IN [p \in {PartFile(<<FEATURES_DATA>>, k) : k \in DOMAIN parts} |->
           parts[CHOOSE k \in DOMAIN parts : PartFile(<<FEATURES_DATA>>, k) = p]]

\* C7: atomic replace of the silver dataset: every step leaves the silver
\* dataset as it was or puts the complete new one in its place, so a reader
\* never finds it absent or partly written.
C7_AtomicReplace ==
    [][\/ SilverOf(fs') = SilverOf(fs)
       \/ SilverOf(fs') = SilverDataset(dd_rets)]_vars

\* C8: committed partitions survive: a step of a run leaves every committed
\* partition listed and with its rows, except the one partition it is writing.
C8_CommittedSurvive ==
    [][\A k \in Committed(fs) :
            /\ k \in ListPartitions(fs')
            /\ \/ PartitionOf(fs', k) = PartitionOf(fs, k)
               \/ /\ pc = "write"
                  /\ wi <= Len(LoopKeys(tech_dt))
                  /\ k = LoopKeys(tech_dt)[wi]]_vars

\* C9: the key-to-path mapping is collision-free: the directory the write loop
\* writes a partition to is the directory of no other key, and writing it
\* leaves the files of every other key as they were.
C9_KeyPathInjective ==
    [][WritePart =>
        LET key == LoopKeys(tech_dt)[wi]
        IN \A k \in Keys \ {key} :
            /\ yr_path(k[1], k[2]) # yr_path(key[1], key[2])
            /\ PartitionOf(fs', k) = PartitionOf(fs, k)]_vars

\* a partition is being written while partitions of the same ticker and of
\* another ticker are in the store
C9_Witness ==
    /\ pc = "write"
    /\ wparts # {}
    /\ \E k1, k2 \in Committed(fs) :
        /\ k1[1] = LoopKeys(tech_dt)[wi][1]
        /\ k2[1] # LoopKeys(tech_dt)[wi][1]

\* C10: undefined return on a zero or missing lag: a return is null whenever
\* the lag is null or zero, a number only when the lag is a non-zero number,
\* and never infinite.
C10_UndefinedReturn ==
    Loaded =>
        \A i \in 1..Len(dd_rets) :
            LET r == dd_rets[i]
            IN /\ r.Returns.kind \in {"num", "nan"}
               /\ (r.Close_lag_1 = NaN \/ r.Close_lag_1 = Num(0)) => r.Returns = NaN
               /\ r.Returns.kind = "num" =>
                    r.Close_lag_1.kind = "num" /\ r.Close_lag_1 # Num(0)

\* the places (file, position) of the bronze store that hold a fetched row
Occurrences(files, r) ==
    {pi \in UNION {{<<p, i>> : i \in DOMAIN files[p]} : p \in Under(files, <<PRICE_DATA>>)} :
        PriceRow(files[pi[1]][pi[2]]) = r}

\* C11: partition content invariant: every file of the bronze store belongs to
\* the partition of one key, every row stored in the partition of (symbol,
\* period) has that symbol and a date whose year is that period, and every
\* fetched row of a period whose write has finished is stored exactly once, in
\* the partition of its symbol and year.
C11_PartitionContent ==
    /\ \A p \in Under(fs, <<PRICE_DATA>>) :
            Cardinality({k \in Keys : IsPrefix(yr_path(k[1], k[2]), p)}) = 1
    /\ \A k \in Keys :
            \A r \in RowsOf(fs, k) :
                r.Ticker = k[1] /\ YearOf(r.Date) = k[2] /\ r.Year = k[2]
    /\ \A i \in 1..Len(ExpectedFrame) :
            LET r == ExpectedFrame[i]
                k == <<r.Ticker, YearOf(r.Date)>>
                occ == Occurrences(fs, r)
            IN k \in Committed(fs) =>
                /\ Cardinality(occ) = 1
                /\ \A pi \in occ : pi[1] \in Under(fs, yr_path(k[1], k[2]))

\* a run that follows a finished run is in the middle of a partition, with
\* finished partitions of two tickers and of two years in the store
C11_Witness ==
    /\ pc = "write"
    /\ prev # <<>>
    /\ wparts # {}
    /\ \E k1, k2, k3 \in Committed(fs) :
        /\ k1[1] # k2[1]
        /\ k1[1] = k3[1]
        /\ k1[2] # k3[2]

====
